---------------------------- MODULE Spec2Model ----------------------------
(***************************************************************************)
(* Model of daily_update.py: the z-score normaliser (compute_z_scores),    *)
(* the name matcher (lookup_player_proj), the add/drop selector            *)
(* (prepare_report) and the driver (main).                                  *)
(*                                                                         *)
(* Numbers are binary floating-point values <<m, e>> = m * 2^e, rounded to *)
(* nearest-even after every operation as IEEE-754 does; the mantissa holds *)
(* MantBits bits instead of 53 and the exponent is unbounded.  Strings are *)
(* sequences of one-character strings.                                     *)
(***************************************************************************)
EXTENDS Integers, Sequences, FiniteSets, TLC

VARIABLES
    pc,          \* the position in main, or in the function applied
    proj_df,     \* the projections (the Player column alone for the lookup)
    roster_df,   \* the roster table
    waiver_df,   \* the waiver table
    espn_json,   \* what try_fetch_espn_league returned
    player_name, \* the name looked up
    proj_z,      \* what compute_z_scores returned
    found,       \* what lookup_player_proj returned or raised
    outcome,     \* what prepare_report returned or raised
    outcome_alt, \* the same for the roster with one name replaced
    report,      \* main's report
    message,     \* the text handed to post_to_slack
    posts        \* the calls of post_to_slack

vars == <<pc, proj_df, roster_df, waiver_df, espn_json, player_name,
          proj_z, found, outcome, outcome_alt, report, message, posts>>

\* ------------------------------ bounds ---------------------------------
\* bits of mantissa of the modelled floats
MantBits == 10
\* rows of a projection table drawn for compute_z_scores
MaxZRows == 3
\* characters of a name and rows of a table drawn for lookup_player_proj
MaxNameLen == 2
MaxLookupRows == 2
\* entries of the roster and of the waiver list drawn for prepare_report
MaxRoster == 2
MaxWaiver == 2

\* ----------------------------- evaluation ------------------------------
\* the element of a one-element set: Only({e(x) : x \in {v}}) is e(v), with
\* v worked out once
Only(S) == CHOOSE y \in S : TRUE

\* the function f with its values worked out
Explicit(f) == f @@ <<>>

\* ------------------------- floating point ------------------------------
Abs(x) == IF x < 0 THEN -x ELSE x

Sgn(x) == IF x < 0 THEN -1 ELSE IF x > 0 THEN 1 ELSE 0

Min2(a, b) == IF a <= b THEN a ELSE b

RECURSIVE Pow2(_)
Pow2(k) == IF k <= 0 THEN 1 ELSE Only({ 2 * Pow2(j) : j \in {k - 1} })

RECURSIVE BitLen(_)
BitLen(n) == IF n = 0 THEN 0 ELSE Only({ 1 + BitLen(h) : h \in {n \div 2} })

\* the canonical form: an odd mantissa, or <<0, 0>>
RECURSIVE Canon(_, _)
Canon(m, e) ==
    IF m = 0 THEN <<0, 0>>
    ELSE IF m % 2 = 0 THEN Only({ Canon(h, f) : h \in {m \div 2}, f \in {e + 1} })
    ELSE <<m, e>>

\* the exact value M * 2^E rounded to MantBits bits, ties to even
Round(M, E) ==
    Only({ IF k <= 0 THEN Canon(m, E)
           ELSE Only({ Canon(Sgn(m) * (IF r > half \/ (r = half /\ q % 2 = 1)
                                       THEN q + 1 ELSE q), E + k) :
                       q \in {Abs(m) \div Pow2(k)}, r \in {Abs(m) % Pow2(k)},
                       half \in {Pow2(k - 1)} }) :
           m \in {M}, k \in {BitLen(Abs(M)) - MantBits} })

Zero == <<0, 0>>

One == <<1, 0>>

FromInt(n) == Round(n, 0)

\* position of the leading bit
Top(a) == a[2] + BitLen(Abs(a[1]))

FNeg(a) == <<-a[1], a[2]>>

\* a + b; an addend below a quarter of the other's last place rounds away
FAdd(a, b) ==
    Only({ IF x[1] = 0 THEN y
           ELSE IF y[1] = 0 THEN x
           ELSE IF Top(x) - Top(y) > MantBits + 2 THEN x
           ELSE IF Top(y) - Top(x) > MantBits + 2 THEN y
           ELSE LET e == Min2(x[2], y[2])
                IN  Round(x[1] * Pow2(x[2] - e) + y[1] * Pow2(y[2] - e), e) :
           x \in {a}, y \in {b} })

FSub(a, b) == FAdd(a, FNeg(b))

FMul(a, b) == Only({ Round(x[1] * y[1], x[2] + y[2]) : x \in {a}, y \in {b} })

\* a / b for b # 0: the quotient to MantBits + 2 bits and a sticky bit
FDiv(a, b) ==
    Only({ IF x[1] = 0 THEN Zero
           ELSE Only({ LET num == Abs(x[1]) * Pow2(k)
                           nb  == Abs(y[1])
                           q   == num \div nb
                           s   == IF num % nb = 0 THEN 0 ELSE 1
                       IN  Round(Sgn(x[1]) * Sgn(y[1]) * (2 * q + s), x[2] - y[2] - k - 1) :
                       k \in {MantBits + 2 + BitLen(Abs(y[1])) - BitLen(Abs(x[1]))} }) :
           x \in {a}, y \in {b} })

RECURSIVE ISqrtIn(_, _, _)
ISqrtIn(n, lo, hi) ==
    IF hi - lo <= 1 THEN lo
    ELSE Only({ IF mid * mid <= n THEN ISqrtIn(n, mid, hi) ELSE ISqrtIn(n, lo, mid) :
                mid \in {(lo + hi) \div 2} })

ISqrt(n) == Only({ ISqrtIn(n, 0, hi) : hi \in {Pow2((BitLen(n) + 1) \div 2)} })

\* sqrt(a) for a >= 0
FSqrt(a) ==
    Only({ IF x[1] = 0 THEN Zero
           ELSE Only({ Only({ Round(2 * r + (IF r * r = x[1] * Pow2(k) THEN 0 ELSE 1),
                                    ((x[2] - k) \div 2) - 1) :
                              r \in {ISqrt(x[1] * Pow2(k))} }) :
                       k \in {LET k0 == 2 * MantBits + 2 - BitLen(x[1])
                                  k1 == IF k0 < 0 THEN 0 ELSE k0
                              IN  IF (x[2] - k1) % 2 = 0 THEN k1 ELSE k1 + 1} }) :
           x \in {a} })

FLess(a, b) == FSub(a, b)[1] < 0

FPos(a) == a[1] > 0

\* ---------------------------- tables -----------------------------------
\* line 42
CATS == <<"PTS", "REB", "AST", "STL", "BLK", "3PM", "FG%", "FT%">>

CatSet == {CATS[i] : i \in 1..Len(CATS)}

\* a cell of a category column as read_csv leaves it: a number, an empty
\* cell (NaN) or a text pandas cannot parse as a number
Num(m, e) == [k |-> "num", v |-> Canon(m, e)]

NaN == [k |-> "nan", v |-> Zero]

Text == [k |-> "text", v |-> Zero]

\* a table: the sequence of its column names and the sequence of its rows,
\* each row a function from the column names to cells
DataFrame(cols, rows) == [cols |-> cols, rows |-> rows]

ColSet(df) == {df.cols[i] : i \in 1..Len(df.cols)}

\* df.empty: no rows or no columns
Empty(df) == Len(df.rows) = 0 \/ Len(df.cols) = 0

\* -------------------------- compute_z_scores ---------------------------
\* pd.to_numeric(errors="coerce"): what does not parse becomes NaN
ToNumeric(cell) == IF cell.k = "num" THEN cell ELSE NaN

\* a fillna that leaves the NaN in place
FillNaKeep(cell) == cell

\* .fillna(0.0)
FillNa(cell) == IF cell.k = "nan" THEN Num(0, 0) ELSE cell

\* lines 121-126: the column of a category as numbers; a column the table
\* lacks is created as 0.0
NumericColumn(df, cat) ==
    Explicit([i \in 1..Len(df.rows) |->
        IF cat \in ColSet(df) THEN FillNa(ToNumeric(df.rows[i][cat])) ELSE Num(0, 0)])

\* Series.sum() skipping NaN, left to right (the tables hold fewer than
\* the eight rows from which numpy sums pairwise)
RECURSIVE SumTo(_, _)
SumTo(col, n) ==
    IF n = 0 THEN Zero
    ELSE IF col[n].k = "nan" THEN SumTo(col, n - 1)
    ELSE FAdd(SumTo(col, n - 1), col[n].v)

RECURSIVE CountTo(_, _)
CountTo(col, n) ==
    IF n = 0 THEN 0
    ELSE CountTo(col, n - 1) + (IF col[n].k = "nan" THEN 0 ELSE 1)

\* Series.mean(): sum / count over the values present
Mean(col) == FDiv(SumTo(col, Len(col)), FromInt(CountTo(col, Len(col))))

RECURSIVE SqDevTo(_, _, _)
SqDevTo(col, avg, n) ==
    IF n = 0 THEN Zero
    ELSE IF col[n].k = "nan" THEN SqDevTo(col, avg, n - 1)
    ELSE LET d == FSub(avg, col[n].v)
         IN  FAdd(SqDevTo(col, avg, n - 1), FMul(d, d))

\* Series.std(ddof=0): sqrt(sum((avg - x)^2) / count)
Std(col) ==
    Only({ FSqrt(FDiv(SqDevTo(col, avg, Len(col)), FromInt(CountTo(col, Len(col))))) :
           avg \in {Mean(col)} })

\* line 133: std if std != 0 else 1.0
StdOrOne(std) == IF std # Zero THEN std ELSE One

\* lines 131-136: z_<cat> of every row; NaN where the value is NaN
ZColumn(col) ==
    IF CountTo(col, Len(col)) = 0 THEN [i \in 1..Len(col) |-> NaN]
    ELSE Only({ Explicit([i \in 1..Len(col) |->
                    IF col[i].k = "nan" THEN NaN
                    ELSE [k |-> "num", v |-> FDiv(FSub(col[i].v, mean), std)]]) :
                mean \in {Mean(col)}, std \in {StdOrOne(Std(col))} })

\* line 139: the sum of a row's z columns, in the order of CATS, skipping NaN
RECURSIVE ZTotalTo(_, _, _)
ZTotalTo(z, i, n) ==
    IF n = 0 THEN Zero
    ELSE IF z[CATS[n]][i].k = "nan" THEN ZTotalTo(z, i, n - 1)
    ELSE FAdd(ZTotalTo(z, i, n - 1), z[CATS[n]][i].v)

\* lines 114-141: the table with the numeric categories, z_<cat>, z_total
compute_z_scores(df) ==
    Only({ Only({ [cols |-> ColSet(df) \cup CatSet,
                   rows |-> Explicit([i \in 1..Len(df.rows) |->
                               [row     |-> df.rows[i],
                                val     |-> Explicit([c \in CatSet |-> val[c][i]]),
                                z       |-> Explicit([c \in CatSet |-> z[c][i]]),
                                z_total |-> ZTotalTo(z, i, Len(CATS))]])] :
                  z \in {Explicit([c \in CatSet |-> ZColumn(val[c])])} }) :
           val \in {Explicit([c \in CatSet |-> NumericColumn(df, c)])} })


\* ------------------- specification: compute_z_scores -------------------
None == [kind |-> "none"]

\* a value of FG% whose threefold sum rounds: 29.5625
Pct == Num(473, -4)

ZCols == <<"Player", "PTS", "FG%">>

ZRow(pts, fg) ==
    [c \in {"Player", "PTS", "FG%"} |-> IF c = "Player" THEN <<"a">> ELSE IF c = "PTS" THEN pts ELSE fg]

PtsCells == {Num(1, 0), Num(3, 0), Text}

ZRows == {ZRow(pts, fg) : pts \in PtsCells, fg \in {Pct, NaN}}

\* the row without its FG% column
DropFG(r) == [c \in {"Player", "PTS"} |-> r[c]]

SeqsUpTo(S, n) == UNION {[1..k -> S] : k \in 0..n}

ZTables ==
    {DataFrame(ZCols, rows) : rows \in SeqsUpTo(ZRows, MaxZRows)}
    \cup {DataFrame(<<"Player", "PTS">>, [i \in 1..Len(rows) |-> DropFG(rows[i])]) :
            rows \in SeqsUpTo({ZRow(pts, NaN) : pts \in PtsCells}, MaxZRows)}

Idle ==
    /\ roster_df = None /\ waiver_df = None /\ espn_json = None
    /\ player_name = None /\ found = None /\ outcome = None
    /\ outcome_alt = None /\ report = None /\ message = None /\ posts = 0

InitZ ==
    /\ pc = "z_start"
    /\ proj_df \in ZTables
    /\ proj_z = None
    /\ Idle

ComputeZ ==
    /\ pc = "z_start"
    /\ proj_z' = compute_z_scores(proj_df)
    /\ pc' = "z_done"
    /\ UNCHANGED <<proj_df, roster_df, waiver_df, espn_json, player_name,
                   found, outcome, outcome_alt, report, message, posts>>

NextZ == ComputeZ

SpecZ == InitZ /\ [][NextZ]_vars

\* the table with every NaN or unparseable category cell replaced by 0
ZeroFilled(df) ==
    DataFrame(df.cols,
        [i \in 1..Len(df.rows) |->
            [c \in ColSet(df) |->
                IF c \in CatSet /\ df.rows[i][c].k # "num" THEN Num(0, 0)
                ELSE df.rows[i][c]]])

\* the scores of a computed table, without the input rows
Scores(t) == [i \in 1..Len(t.rows) |->
                 [val |-> t.rows[i].val, z |-> t.rows[i].z, z_total |-> t.rows[i].z_total]]

\* the first n rows of a table
FirstRows(df, n) == DataFrame(df.cols, SubSeq(df.rows, 1, n))

\* the sum of row i's z columns over the categories it has a value for
RECURSIVE PresentTotalTo(_, _, _, _)
PresentTotalTo(t, df, i, n) ==
    IF n = 0 THEN Zero
    ELSE IF CATS[n] \in ColSet(df) /\ df.rows[i][CATS[n]].k # "num"
         THEN PresentTotalTo(t, df, i, n - 1)
         ELSE FAdd(PresentTotalTo(t, df, i, n - 1), t.rows[i].z[CATS[n]].v)

C9_ZeroStdScoresZero ==
    pc = "z_done" =>
        \A c \in CatSet :
            (\A i, j \in 1..Len(proj_z.rows) : proj_z.rows[i].val[c] = proj_z.rows[j].val[c])
                => \A i \in 1..Len(proj_z.rows) :
                      /\ proj_z.rows[i].z[c] = Num(0, 0)
                      /\ Len(proj_z.rows) = 1 => proj_z.rows[i].z_total = Zero


\* ------------------------------ strings --------------------------------
\* str.lower() on one character
LowerChar(ch) == IF ch = "A" THEN "a" ELSE IF ch = "B" THEN "b" ELSE ch

Lower(s) == [i \in 1..Len(s) |-> LowerChar(s[i])]

IsSpace(ch) == ch = " "

RECURSIVE LStrip(_)
LStrip(s) == IF s # <<>> /\ IsSpace(s[1]) THEN LStrip(Tail(s)) ELSE s

RECURSIVE RStrip(_)
RStrip(s) ==
    IF s # <<>> /\ IsSpace(s[Len(s)]) THEN RStrip(SubSeq(s, 1, Len(s) - 1)) ELSE s

\* str.strip()
Strip(s) == RStrip(LStrip(s))

RECURSIVE TakeWord(_)
TakeWord(s) ==
    IF s = <<>> \/ IsSpace(s[1]) THEN <<>> ELSE <<s[1]>> \o TakeWord(Tail(s))

\* str.split(): whether there is a first word, and the word
HasWord(s) == LStrip(s) # <<>>

FirstWord(s) == TakeWord(LStrip(s))

\* the pattern as a plain substring of s
ContainsLiteral(s, pat) ==
    \E k \in 0..(Len(s) - Len(pat)) : \A j \in 1..Len(pat) : s[k + j] = pat[j]

\* re.search(pat, s) for a pattern of literal characters and ".", which
\* matches any character: Series.str.contains has regex=True by default
Contains(s, pat) ==
    \E k \in 0..(Len(s) - Len(pat)) :
        \A j \in 1..Len(pat) : pat[j] = "." \/ s[k + j] = pat[j]

\* ------------------------- lookup_player_proj --------------------------
\* an empty Player cell of the projections, which pandas reads as NaN
NaNName == <<"NaN">>

Row(i) == [kind |-> "row", idx |-> i]

Raise(exc) == [kind |-> "raise", exc |-> exc]

FirstIn(S) == CHOOSE i \in S : \A j \in S : i <= j

\* lines 143-155 on the Player column of the projections; the result is
\* the index of the row returned, None, or the exception raised
lookup_player_proj(players, player_name_) ==
    LET n     == Len(players)
        strs  == {i \in 1..n : players[i] # NaNName}
        exact == {i \in strs : Strip(Lower(players[i])) = Strip(Lower(player_name_))}
        word  == FirstWord(Lower(player_name_))
        cont  == {i \in strs : Contains(Lower(players[i]), word)}
    IN  IF n > 0 /\ strs = {} THEN Raise("AttributeError")
        ELSE IF exact # {} THEN Row(FirstIn(exact))
        ELSE IF ~HasWord(Lower(player_name_)) THEN Raise("IndexError")
        ELSE IF strs # 1..n THEN Raise("ValueError")
        ELSE IF cont # {} THEN Row(FirstIn(cont))
        ELSE None

\* ------------------ specification: lookup_player_proj ------------------
Alphabet == {"a", "b", "A", " ", "."}

Names == SeqsUpTo(Alphabet, MaxNameLen)

InitLookup ==
    /\ pc = "lookup_start"
    /\ proj_df \in SeqsUpTo(Names \cup {NaNName}, MaxLookupRows)
    /\ player_name \in Names
    /\ found = None
    /\ roster_df = None /\ waiver_df = None /\ espn_json = None
    /\ proj_z = None /\ outcome = None /\ outcome_alt = None
    /\ report = None /\ message = None /\ posts = 0

Lookup ==
    /\ pc = "lookup_start"
    /\ found' = lookup_player_proj(proj_df, player_name)
    /\ pc' = "lookup_done"
    /\ UNCHANGED <<proj_df, roster_df, waiver_df, espn_json, player_name,
                   proj_z, outcome, outcome_alt, report, message, posts>>

NextLookup == Lookup

SpecLookup == InitLookup /\ [][NextLookup]_vars

\* C5 as claimed: the first row whose case-folded, trimmed name equals that
\* of the input; else the first row whose case-folded name contains the
\* case-folded first word of the input; else absent.
C5_LookupAsSpecified ==
    pc = "lookup_done" =>
        LET n     == Len(proj_df)
            low   == [i \in 1..n |-> IF proj_df[i] = NaNName THEN NaNName
                                     ELSE Lower(proj_df[i])]
            exact == {i \in 1..n : low[i] # NaNName
                                   /\ Strip(low[i]) = Strip(Lower(player_name))}
            word  == FirstWord(Lower(player_name))
            cont  == {i \in 1..n : low[i] # NaNName /\ HasWord(player_name)
                                   /\ ContainsLiteral(low[i], word)}
        IN  found = IF exact # {} THEN Row(FirstIn(exact))
                    ELSE IF cont # {} THEN Row(FirstIn(cont))
                    ELSE None


\* ---------------------------- prepare_report ---------------------------
\* lines 179 and 196: the z_total given to a player without a projection
UnmatchedZ == -999

\* line 203: head(3); line 206: head(5)
UnderCount == 3

TopCount == 5

\* the projection tables the specifications draw from
PRow(name, pts) == [c \in {"Player", "PTS"} |-> IF c = "Player" THEN name ELSE pts]

ProjTables ==
    { DataFrame(<<"Player">> \o CATS, <<>>),
      DataFrame(<<"Player", "PTS">>, <<PRow(<<"a">>, Num(1, 0)), PRow(<<"b">>, Num(3, 0))>>),
      DataFrame(<<"Player", "PTS">>, <<PRow(<<"a">>, Text), PRow(<<"b">>, Num(3, 0)),
                                       PRow(<<"a", "b">>, Num(1, 0))>>),
      DataFrame(<<"Player", "PTS">>, <<PRow(NaNName, Num(3, 0)), PRow(<<"a">>, Num(1, 0))>>),
      DataFrame(<<"PTS">>, <<[c \in {"PTS"} |-> Num(1, 0)]>>) }

\* projections whose lowest-scoring row has 0 in every category
PairTable ==
    DataFrame(<<"Player", "PTS">>, <<PRow(<<"a">>, Num(3, 0)), PRow(<<"b">>, Num(0, 0))>>)

\* the Player column of the scored projections
PlayerColumn(t) == Explicit([i \in 1..Len(t.rows) |-> t.rows[i].row["Player"]])

\* the Player column of a roster or waiver table (astype(str) leaves the
\* strings of the model as they are)
NameColumn(df) == Explicit([i \in 1..Len(df.rows) |-> df.rows[i]["Player"]])

Lookups(names, players) ==
    Explicit([i \in 1..Len(names) |-> lookup_player_proj(players, names[i])])

Raised(ls) == {i \in 1..Len(ls) : ls[i].kind = "raise"}

\* lines 174-181, 191-198: a player and the z_total of the row matched, or -999.0
ZList(names, ls, t) ==
    Explicit([i \in 1..Len(names) |->
        [Player  |-> names[i],
         z_total |-> IF ls[i].kind = "row" THEN t.rows[ls[i].idx].z_total
                     ELSE FromInt(UnmatchedZ)]])

\* the orders sort_values may leave the rows in: the default kind is
\* quicksort, which is not stable, so equal keys come in any order
SortOrders(list, desc) ==
    {p \in Permutations(1..Len(list)) :
        \A i, j \in 1..Len(list) : i < j =>
            IF desc THEN ~FLess(list[p[i]].z_total, list[p[j]].z_total)
                    ELSE ~FLess(list[p[j]].z_total, list[p[i]].z_total)}

\* lines 183, 200: sort_values("z_total").reset_index(drop=True)
SortValues(list, desc) ==
    Only({ {Explicit([i \in 1..Len(l) |-> l[p[i]]]) : p \in SortOrders(l, desc)} :
           l \in {list} })

\* DataFrame.head(k)
HeadRows(list, k) == SubSeq(list, 1, Min2(k, Len(list)))

\* a test of the gain that lets a zero gain through
GainOkOrZero(delta) == delta[1] >= 0

\* line 213: delta > 0
GainOk(delta) == FPos(delta)

\* lines 208-220
Suggestion(roster_z, waiver_z) ==
    IF waiver_z # <<>> /\ roster_z # <<>>
    THEN LET candidate_add  == waiver_z[1]
             candidate_drop == roster_z[1]
             delta == FSub(candidate_add.z_total, candidate_drop.z_total)
         IN  IF GainOk(delta)
             THEN [kind   |-> "swap",
                   add    |-> candidate_add.Player,
                   add_z  |-> candidate_add.z_total,
                   drop   |-> candidate_drop.Player,
                   drop_z |-> candidate_drop.z_total,
                   z_gain |-> delta]
             ELSE None
    ELSE None

\* lines 225-229: the sum of a category over the roster rows matched
RECURSIVE TeamTotalTo(_, _, _, _)
TeamTotalTo(ls, t, cat, n) ==
    IF n = 0 THEN Zero
    ELSE IF ls[n].kind = "row"
         THEN FAdd(TeamTotalTo(ls, t, cat, n - 1), t.rows[ls[n].idx].val[cat].v)
         ELSE TeamTotalTo(ls, t, cat, n - 1)

Return(value) == [kind |-> "return", value |-> value]

\* lines 232-238
Report(roster_z, waiver_z, ls, t) ==
    [underperformers |-> HeadRows(roster_z, UnderCount),
     top_waivers     |-> HeadRows(waiver_z, TopCount),
     suggestion      |-> Suggestion(roster_z, waiver_z),
     team_proj       |-> Explicit([c \in CatSet |-> TeamTotalTo(ls, t, c, Len(ls))]),
     proj_count      |-> Len(t.rows)]

\* lines 157-238: the values prepare_report may return, or the exception
\* it raises
prepare_report(roster, waiver, proj) ==
    Only({
        IF "Player" \notin t.cols THEN {Raise("RuntimeError")}
        ELSE IF "Player" \notin ColSet(roster) THEN {Raise("KeyError")}
        ELSE Only({
            IF Raised(rl) # {} THEN {rl[FirstIn(Raised(rl))]}
            \* line 183: DataFrame([]) has no column z_total to sort by
            ELSE IF NameColumn(roster) = <<>> THEN {Raise("KeyError")}
            ELSE IF Empty(waiver)
            THEN {Return(Report(rz, <<>>, rl, t)) :
                    rz \in SortValues(ZList(NameColumn(roster), rl, t), FALSE)}
            ELSE IF "Player" \notin ColSet(waiver) THEN {Raise("KeyError")}
            ELSE Only({
                IF Raised(wl) # {} THEN {wl[FirstIn(Raised(wl))]}
                ELSE {Return(Report(rz, wz, rl, t)) :
                        rz \in SortValues(ZList(NameColumn(roster), rl, t), FALSE),
                        wz \in SortValues(ZList(NameColumn(waiver), wl, t), TRUE)} :
                wl \in {Lookups(NameColumn(waiver), PlayerColumn(t))} }) :
            rl \in {Lookups(NameColumn(roster), PlayerColumn(t))} }) :
        t \in {compute_z_scores(proj)} })

\* -------------------- specification: prepare_report --------------------
Frame(names) == DataFrame(<<"Player">>, [i \in 1..Len(names) |-> [c \in {"Player"} |-> names[i]]])

\* roster names: two that match the same row, as they are and by case; a
\* name of no row; a name without a word
RosterNames == {<<"a">>, <<"A">>, <<"z">>, <<" ">>}

\* waiver names: the same, with a name that matches by its first word in
\* place of the name of no row (no name has a row in the empty table)
WaiverNames == {<<"a">>, <<"A">>, <<"b", " ", "x">>, <<" ">>}

InitPrepare ==
    /\ pc = "prepare_start"
    /\ proj_df \in ProjTables
    /\ roster_df \in {Frame(ns) : ns \in SeqsUpTo(RosterNames, MaxRoster)}
    /\ waiver_df \in {Frame(ns) : ns \in SeqsUpTo(WaiverNames, MaxWaiver)}
    /\ outcome = None
    /\ espn_json = None /\ player_name = None /\ proj_z = None /\ found = None
    /\ outcome_alt = None /\ report = None /\ message = None /\ posts = 0

Prepare ==
    /\ pc = "prepare_start"
    /\ outcome' \in prepare_report(roster_df, waiver_df, proj_df)
    /\ pc' = "prepare_done"
    /\ UNCHANGED <<proj_df, roster_df, waiver_df, espn_json, player_name,
                   proj_z, found, outcome_alt, report, message, posts>>

NextPrepare == Prepare

SpecPrepare == InitPrepare /\ [][NextPrepare]_vars

\* what the claims speak of, from the inputs: the lookups and aggregates
\* of the roster and of the waiver list
InLookups(df) == Lookups(NameColumn(df), PlayerColumn(compute_z_scores(proj_df)))

InZ(df) ==
    Only({ ZList(NameColumn(df), Lookups(NameColumn(df), PlayerColumn(t)), t) :
           t \in {compute_z_scores(proj_df)} })

\* every name of both lists is looked up without an exception
Scorable ==
    /\ "Player" \in ColSet(proj_df)
    /\ Raised(InLookups(roster_df)) = {}
    /\ Raised(InLookups(waiver_df)) = {}

\* the first entry with the least, and with the greatest, z_total
FirstMin(list) ==
    FirstIn({i \in 1..Len(list) :
                \A j \in 1..Len(list) : ~FLess(list[j].z_total, list[i].z_total)})

FirstMax(list) ==
    FirstIn({i \in 1..Len(list) :
                \A j \in 1..Len(list) : ~FLess(list[i].z_total, list[j].z_total)})

Done == pc = "prepare_done"

Returned == Done /\ outcome.kind = "return"

Swap == Returned /\ outcome.value.suggestion.kind = "swap"

C2_GainPositive ==
    Returned =>
        LET sg == outcome.value.suggestion
            rz == InZ(roster_df)
            wz == InZ(waiver_df)
        IN  /\ sg.kind = "swap" =>
                /\ sg.z_gain = FSub(sg.add_z, sg.drop_z)
                /\ FPos(sg.z_gain)
                /\ FLess(sg.drop_z, sg.add_z)
                /\ sg.drop_z = rz[FirstMin(rz)].z_total
                /\ sg.add_z = wz[FirstMax(wz)].z_total
            /\ (rz # <<>> /\ wz # <<>>
                /\ ~FLess(rz[FirstMin(rz)].z_total, wz[FirstMax(wz)].z_total))
                    => sg = None

\* a suggestion is returned for two players that both have a projection
C2_Witness ==
    /\ Swap
    /\ outcome.value.suggestion.drop_z # FromInt(UnmatchedZ)
    /\ outcome.value.suggestion.add_z # FromInt(UnmatchedZ)

\* C3 as claimed: the add of a suggestion is never a waiver entry without
\* a projection; and with a roster entry without a projection and a waiver
\* entry with one, a suggestion is returned that drops a roster entry
\* without a projection, with a positive gain.
C3_UnmatchedDominatedWorst ==
    Done /\ "Player" \in ColSet(proj_df) =>
        LET rl == InLookups(roster_df)
            wl == InLookups(waiver_df)
            rn == NameColumn(roster_df)
            wn == NameColumn(waiver_df)
        IN  /\ Swap => \E j \in 1..Len(wn) :
                          wn[j] = outcome.value.suggestion.add /\ wl[j].kind = "row"
            /\ ((\E i \in 1..Len(rn) : rl[i] = None) /\ (\E j \in 1..Len(wn) : wl[j].kind = "row"))
                => /\ Swap
                   /\ \E i \in 1..Len(rn) :
                         rn[i] = outcome.value.suggestion.drop /\ rl[i] = None
                   /\ FPos(outcome.value.suggestion.z_gain)

\* C4 as claimed: with no roster entry or no waiver entry, prepare_report
\* returns a report without a suggestion.
C4_EmptyInputNoSuggestion ==
    (Done /\ "Player" \in ColSet(proj_df)
          /\ (Len(roster_df.rows) = 0 \/ Len(waiver_df.rows) = 0))
        => Returned /\ outcome.value.suggestion = None

\* C7 as claimed: for tables that have a player-name column, prepare_report
\* returns a report and raises nothing.
C7_NeverRaises ==
    Done /\ "Player" \in ColSet(proj_df) => Returned

\* ------------- specification: prepare_report on two rosters ------------
\* the name of the first row of least z_total
LowestName(proj) ==
    LET t == compute_z_scores(proj) IN t.rows[FirstMin(t.rows)].row["Player"]

\* the table with the name of entry i replaced
Renamed(df, i, name) ==
    DataFrame(df.cols, [df.rows EXCEPT ![i] = [c \in {"Player"} |-> name]])

InitPair ==
    /\ pc = "pair_start"
    /\ proj_df = PairTable
    /\ roster_df \in {Frame(ns) : ns \in SeqsUpTo({<<"a">>, <<"b">>, <<"z">>}, UnderCount + 1)}
    /\ waiver_df \in {Frame(<<>>), Frame(<<<<"a">>>>)}
    /\ outcome = None /\ outcome_alt = None
    /\ espn_json = None /\ player_name = None /\ proj_z = None /\ found = None
    /\ report = None /\ message = None /\ posts = 0

\* prepare_report on the roster, and on the roster in which an entry
\* without a projection is given the name of the lowest-scoring row
PreparePair ==
    /\ pc = "pair_start"
    /\ \E i \in 1..Len(roster_df.rows) :
          /\ InLookups(roster_df)[i] = None
          /\ outcome' \in prepare_report(roster_df, waiver_df, proj_df)
          /\ \E o \in prepare_report(Renamed(roster_df, i, LowestName(proj_df)),
                                     waiver_df, proj_df) :
                outcome_alt' = [idx |-> i, outcome |-> o]
    /\ pc' = "pair_done"
    /\ UNCHANGED <<proj_df, roster_df, waiver_df, espn_json, player_name,
                   proj_z, found, report, message, posts>>

NextPair == PreparePair

SpecPair == InitPair /\ [][NextPair]_vars

\* C8 as claimed: the report for a roster with a player without a
\* projection differs from the report for the same roster with that player
\* matched to the lowest-scoring projection row.
C8_UnmatchedTellsApart ==
    pc = "pair_done" => outcome # outcome_alt.outcome

\* --------------------------------- main --------------------------------
RECURSIVE Pow10(_)
Pow10(d) == IF d <= 0 THEN 1 ELSE 10 * Pow10(d - 1)

\* f"{x:.<d>f}": x rounded to d decimals, ties to even, as the integer
\* x * 10^d (the sign of a zero is not kept)
FormatFixed(x, d) ==
    LET N == Abs(x[1]) * Pow10(d)
    IN  IF x[2] >= 0 THEN Sgn(x[1]) * N * Pow2(x[2])
        ELSE IF -x[2] > 30 THEN 0
        ELSE LET D  == Pow2(-x[2])
                 q  == N \div D
                 r  == N % D
                 up == 2 * r > D \/ (2 * r = D /\ q % 2 = 1)
             IN  Sgn(x[1]) * (IF up THEN q + 1 ELSE q)

FormatRows(list) ==
    IF list # <<>>
    THEN [kind |-> "rows",
          rows |-> [i \in 1..Len(list) |->
                      [Player |-> list[i].Player, z_total |-> FormatFixed(list[i].z_total, 2)]]]
    ELSE None

\* lines 240-278: the sections of the message
format_slack_message(r) ==
    [team_proj       |-> [c \in CatSet |-> FormatFixed(r.team_proj[c], 1)],
     underperformers |-> FormatRows(r.underperformers),
     top_waivers     |-> FormatRows(r.top_waivers),
     suggestion      |-> IF r.suggestion.kind = "swap"
                         THEN [kind   |-> "swap",
                               add    |-> r.suggestion.add,
                               add_z  |-> FormatFixed(r.suggestion.add_z, 2),
                               drop   |-> r.suggestion.drop,
                               drop_z |-> FormatFixed(r.suggestion.drop_z, 2),
                               z_gain |-> FormatFixed(r.suggestion.z_gain, 2)]
                         ELSE None,
     proj_count      |-> r.proj_count]

\* lines 333-339: the minimal fallback report
FallbackReport(proj) ==
    [underperformers |-> <<>>,
     top_waivers     |-> <<>>,
     suggestion      |-> None,
     team_proj       |-> [c \in CatSet |-> Zero],
     proj_count      |-> Len(proj.rows)]

\* a main without the try of line 328: a raise of prepare_report ends it
AfterPrepareNoTry(o) == IF o.kind = "raise" THEN "prepare_raised" ELSE "post"

\* lines 328-341: the try and its except both go on to line 341
AfterPrepare(o) == "post"

\* lines 328-339: the report returned, or the fallback when it raised
ReportOf(o, proj) == IF o.kind = "return" THEN o.value ELSE FallbackReport(proj)

\* lines 311-312: what the except branch leaves in roster_df and waiver_df
NoSheet == DataFrame(<<"Player">>, <<>>)

\* lines 322-325: a table without a Player column gets its first column,
\* or no rows, as Player
EnsurePlayer(df) ==
    IF "Player" \in ColSet(df) THEN df
    ELSE IF Empty(df) THEN DataFrame(df.cols \o <<"Player">>, <<>>)
    ELSE DataFrame(df.cols \o <<"Player">>,
            [i \in 1..Len(df.rows) |->
                [c \in ColSet(df) \cup {"Player"} |->
                    IF c = "Player" THEN df.rows[i][df.cols[1]] ELSE df.rows[i][c]]])

\* what a worksheet may hold; the first is also what read_sheet_to_df
\* returns for a worksheet that is not there
SheetFrames ==
    { DataFrame(<<>>, <<>>),
      Frame(<<<<"a">>>>),
      Frame(<<<<"z">>, <<"A">>>>),
      Frame(<<<<" ">>>>),
      DataFrame(<<"Name">>, <<[c \in {"Name"} |-> <<"b", " ", "x">>]>>) }

InitMain ==
    /\ pc = "load"
    /\ proj_df = None /\ roster_df = None /\ waiver_df = None
    /\ espn_json = None /\ outcome = None /\ report = None
    /\ message = None /\ posts = 0
    /\ player_name = None /\ proj_z = None /\ found = None /\ outcome_alt = None

\* line 297: the projections read, or the default table of line 81
LoadProjections ==
    /\ pc = "load"
    /\ proj_df' \in ProjTables
    /\ pc' = "connect"
    /\ UNCHANGED <<roster_df, waiver_df, espn_json, player_name, proj_z, found,
                   outcome, outcome_alt, report, message, posts>>

\* line 297: read_csv raises and main ends
LoadProjectionsRaises ==
    /\ pc = "load"
    /\ pc' = "load_failed"
    /\ UNCHANGED <<proj_df, roster_df, waiver_df, espn_json, player_name, proj_z,
                   found, outcome, outcome_alt, report, message, posts>>

\* lines 304-305, 309-312
ConnectGoogleSheet ==
    /\ pc = "connect"
    /\ \/ pc' = "read_roster" /\ UNCHANGED <<roster_df, waiver_df>>
       \/ pc' = "espn" /\ roster_df' = NoSheet /\ waiver_df' = NoSheet
    /\ UNCHANGED <<proj_df, espn_json, player_name, proj_z, found,
                   outcome, outcome_alt, report, message, posts>>

\* lines 306, 309-312
ReadRoster ==
    /\ pc = "read_roster"
    /\ \/ pc' = "read_waiver" /\ roster_df' \in SheetFrames /\ UNCHANGED waiver_df
       \/ pc' = "espn" /\ roster_df' = NoSheet /\ waiver_df' = NoSheet
    /\ UNCHANGED <<proj_df, espn_json, player_name, proj_z, found,
                   outcome, outcome_alt, report, message, posts>>

\* lines 307-312
ReadWaiver ==
    /\ pc = "read_waiver"
    /\ \/ pc' = "espn" /\ waiver_df' \in SheetFrames /\ UNCHANGED roster_df
       \/ pc' = "espn" /\ roster_df' = NoSheet /\ waiver_df' = NoSheet
    /\ UNCHANGED <<proj_df, espn_json, player_name, proj_z, found,
                   outcome, outcome_alt, report, message, posts>>

\* lines 315-325: the ESPN fetch, then the Player columns
FetchEspnAndEnsure ==
    /\ pc = "espn"
    /\ espn_json' \in {None, [kind |-> "json"]}
    /\ roster_df' = EnsurePlayer(roster_df)
    /\ waiver_df' = EnsurePlayer(waiver_df)
    /\ pc' = "prepare"
    /\ UNCHANGED <<proj_df, player_name, proj_z, found,
                   outcome, outcome_alt, report, message, posts>>

\* lines 328-341
PrepareAndFormat ==
    /\ pc = "prepare"
    /\ \E o \in prepare_report(roster_df, waiver_df, proj_df) :
          /\ outcome' = o
          /\ report' = ReportOf(o, proj_df)
          /\ message' = format_slack_message(ReportOf(o, proj_df))
          /\ pc' = AfterPrepare(o)
    /\ UNCHANGED <<proj_df, roster_df, waiver_df, espn_json, player_name,
                   proj_z, found, outcome_alt, posts>>

\* lines 342-346 and 280-291: the call of post_to_slack; it returns with
\* the message posted, without a token or on a SlackApiError, or raises
PostToSlack ==
    /\ pc = "post"
    /\ posts' = posts + 1
    /\ pc' \in {"posted", "no_token", "slack_error", "post_raised"}
    /\ UNCHANGED <<proj_df, roster_df, waiver_df, espn_json, player_name,
                   proj_z, found, outcome, outcome_alt, report, message>>

NextMain ==
    \/ LoadProjections
    \/ LoadProjectionsRaises
    \/ ConnectGoogleSheet
    \/ ReadRoster
    \/ ReadWaiver
    \/ FetchEspnAndEnsure
    \/ PrepareAndFormat
    \/ PostToSlack

Spec == InitMain /\ [][NextMain]_vars

\* the statements of main that are still to run
Running == {"load", "connect", "read_roster", "read_waiver", "espn", "prepare", "post"}

\* main goes on to its next statement
Advance ==
    /\ pc \in Running
    /\ pc' \in (Running \cup {"load_failed", "posted", "no_token", "slack_error", "post_raised"}) \ {pc}

\* main runs its statements one after the other: no statement of lines
\* 297-346 waits for anything, and every step of NextMain is an Advance step
FairSpec == Spec /\ WF_pc(Advance)

\* post_to_slack has been called once, with the message of a built report,
\* which is the minimal one when prepare_report raised
PostedWithReport ==
    /\ posts = 1
    /\ report # None
    /\ message = format_slack_message(report)
    /\ outcome.kind = "raise" =>
          /\ report.suggestion = None
          /\ report.underperformers = <<>>
          /\ report.top_waivers = <<>>
          /\ \A c \in CatSet : report.team_proj[c] = Zero
          /\ message.suggestion = None

\* C10: once load_projections has returned, main comes to call
\* post_to_slack, it calls it once and with a report built; and when
\* prepare_report raised, that report has no suggestion, no underperformers,
\* no waiver targets and totals of 0.
C10_PostsOnceWithReport ==
    /\ (pc = "connect") ~> PostedWithReport
    /\ [](posts <= 1)

\* the post is made after the sheets could not be read and prepare_report
\* raised on the empty roster
C10_Witness ==
    /\ posts = 1
    /\ outcome.kind = "raise"
    /\ roster_df = NoSheet

=============================================================================
